---- MODULE Spec2Model ----
(***************************************************************************)
(* A model of toxmon's RedditParser (src/toxmon/reddit_parsers.py): the    *)
(* thread parser, the recursive comment-tree flattener and the media and   *)
(* URL sub-extractors.  Python values are modelled as tagged records, a    *)
(* call's outcome as either a returned value or a raised exception.        *)
(* Also the checkpointed retrieval of get_reddit_data.py.                  *)
(***************************************************************************)
EXTENDS Integers, Sequences, FiniteSets, TLC

VARIABLES pc, op, doc, parent, result,
          ckpt, files, written, run, listing, saved, loaded, fetch

\* one call of the parser: its argument and its outcome
call == <<pc, op, doc, parent, result>>

\* the data directory and the run of retrieve_threads over it
retrieval == <<ckpt, files, written, run, listing>>

\* the checkpoints saved and loaded by direct calls
ckcalls == <<saved, loaded>>

vars == <<call, retrieval, ckcalls, fetch>>

(***************************************************************************)
(* Python values.  A mapping is a TLA+ function from key strings to        *)
(* values, a list is a sequence of values.                                 *)
(***************************************************************************)
JNull == [tag |-> "null"]

JStr(s) == [tag |-> "str", str |-> s]

JInt(i) == [tag |-> "int", int |-> i]

\* a float, held in hundredths
JFloat(c) == [tag |-> "float", cent |-> c]

JBool(b) == [tag |-> "bool", bool |-> b]

JMap(m) == [tag |-> "map", map |-> m]

JList(l) == [tag |-> "list", list |-> l]

EmptyMap == [k \in {} |-> JNull]

\* the outcome of a call: a returned value, or the exception it raised
Ok(v) == [ok |-> v]

Raise(e) == [raise |-> e]

IsOk(r) == "ok" \in DOMAIN r

IsRaise(r) == "raise" \in DOMAIN r

\* dict.get(key, default) on the content m of a mapping
Get(m, k, d) == IF k \in DOMAIN m THEN m[k] ELSE d

\* dict.update: the keys of u override or extend those of d
Update(d, u) ==
    [k \in DOMAIN d \cup DOMAIN u |-> IF k \in DOMAIN u THEN u[k] ELSE d[k]]

(***************************************************************************)
(* RedditDataRetriever: checkpoint.json, and retrieve_threads.             *)
(* A name is the sequence of the parts that its underscores separate, so   *)
(* that joining names with "_" is the concatenation of their parts.        *)
(***************************************************************************)
\* line 152, 168: f"{subreddit_name}_{sort}_{time_filter}"
CheckpointKey(subreddit_name, sort, time_filter) ==
    subreddit_name \o sort \o time_filter

\* checkpoint.json: missing, a valid JSON object, or cut short by a write
\* that did not finish
NoFile == [state |-> "missing"]

ValidFile(checkpoints) == [state |-> "valid", map |-> checkpoints]

CorruptFile == [state |-> "corrupt"]

NoCheckpoints == [k \in {} |-> [last_processed_index |-> 0]]

\* RedditDataRetriever._save_checkpoint: the file it leaves, or the
\* JSONDecodeError of json.load, which only FileNotFoundError is caught of
_save_checkpoint(file, index, subreddit_name, sort, time_filter) ==
    LET checkpoint_key == CheckpointKey(subreddit_name, sort, time_filter)
    IN  IF file.state = "corrupt" THEN Raise("JSONDecodeError")
        ELSE LET checkpoints ==
                    IF file.state = "missing" THEN NoCheckpoints ELSE file.map
             IN  Ok(ValidFile(
                      [k \in DOMAIN checkpoints \cup { checkpoint_key } |->
                          IF k = checkpoint_key
                          THEN [last_processed_index |-> index]
                          ELSE checkpoints[k]]))

\* RedditDataRetriever._load_checkpoint
_load_checkpoint(file, subreddit_name, sort, time_filter) ==
    LET checkpoint_key == CheckpointKey(subreddit_name, sort, time_filter)
    IN  CASE file.state = "missing" -> Ok(0)
          [] file.state = "corrupt" -> Raise("JSONDecodeError")
          [] file.state = "valid" ->
                Ok(IF checkpoint_key \in DOMAIN file.map
                   THEN file.map[checkpoint_key].last_processed_index
                   ELSE 0)

\* the largest number of submissions in the listing
MaxSubmissions == 3

\* the key of the runs: subreddit, sort and time filter
RunSubreddit == << "ask", "me" >>

RunSort == << "top" >>

RunTimeFilter == << "all" >>

Idle == [pc |-> "idle", i |-> 0, last |-> 0]

\* no data directory in use
NoRetrieval ==
    /\ ckpt = NoFile
    /\ files = [threads |-> << >>, comments |-> << >>]
    /\ written = [threads |-> {}, comments |-> {}]
    /\ run = Idle
    /\ listing = 0

NoCheckpointCalls ==
    /\ saved = << >>
    /\ loaded = [key |-> << >>, index |-> Ok(0)]

\* no call of get_channel_videos or get_video_comments
NoFetch == fetch = [pc |-> "idle"]

\* an empty data directory and a listing of some length; list index i is
\* place i + 1 of the sequences
InitRetrieve ==
    /\ pc = "input"
    /\ op = "none"
    /\ doc = JNull
    /\ parent = JNull
    /\ result = Ok(JNull)
    /\ listing \in 0..MaxSubmissions
    /\ ckpt = NoFile
    /\ files = [threads |-> [j \in 1..listing |-> "absent"],
                comments |-> [j \in 1..listing |-> "absent"]]
    /\ written = [threads |-> {}, comments |-> {}]
    /\ run = Idle
    /\ NoCheckpointCalls
    /\ NoFetch

\* line 186: the checkpoint is loaded outside the try
StartRun ==
    /\ run.pc = "idle"
    /\ LET last_processed_index ==
              _load_checkpoint(ckpt, RunSubreddit, RunSort, RunTimeFilter)
       IN  run' = IF IsRaise(last_processed_index)
                  THEN [pc |-> "raised", i |-> 0, last |-> 0]
                  ELSE [pc |-> "submissions", i |-> last_processed_index.ok,
                        last |-> last_processed_index.ok]
    /\ UNCHANGED <<ckpt, files, written, listing, call, ckcalls, fetch>>

\* lines 188-197: the listing is fetched and cut at last_processed_index
GetSubmissions ==
    /\ run.pc = "submissions"
    /\ run' = IF run.i < listing THEN [run EXCEPT !.pc = "thread"]
              ELSE [run EXCEPT !.pc = "returned"]
    /\ UNCHANGED <<ckpt, files, written, listing, call, ckcalls, fetch>>

\* lines 203-206 and 208-210: a file of submission i is written whole
SaveData(kind, next) ==
    /\ files' = [files EXCEPT ![kind][run.i + 1] = "complete"]
    /\ written' = [written EXCEPT ![kind] = @ \cup { run.i }]
    /\ run' = [run EXCEPT !.pc = next]
    /\ UNCHANGED <<ckpt, listing, call, ckcalls, fetch>>

SaveThread == run.pc = "thread" /\ SaveData("threads", "comments")

SaveComments == run.pc = "comments" /\ SaveData("comments", "checkpoint")

\* line 211: the index that is saved
CheckpointIndexNext(i) == i + 1

CheckpointIndex(i) == i

\* line 211: the checkpoint of submission i is written
SaveCheckpoint ==
    /\ run.pc = "checkpoint"
    /\ LET file == _save_checkpoint(ckpt, CheckpointIndex(run.i), RunSubreddit,
                                    RunSort, RunTimeFilter)
       IN  IF IsRaise(file)
           THEN /\ run' = [run EXCEPT !.pc = "caught"]
                /\ UNCHANGED ckpt
           ELSE /\ ckpt' = file.ok
                /\ run' = [run EXCEPT !.pc = "sleep"]
    /\ UNCHANGED <<files, written, listing, call, ckcalls, fetch>>

\* line 212 and the loop's next turn: the wait is over, the next submission
\* is taken or the listing is at its end
Sleep ==
    /\ run.pc = "sleep"
    /\ run' = IF run.i + 1 < listing
              THEN [run EXCEPT !.pc = "thread", !.i = run.i + 1]
              ELSE [run EXCEPT !.pc = "returned"]
    /\ UNCHANGED <<ckpt, files, written, listing, call, ckcalls, fetch>>

\* an exception before the step at hand has changed anything: line 214
Abort ==
    /\ run.pc \in { "submissions", "thread", "comments", "checkpoint", "sleep" }
    /\ run' = [run EXCEPT !.pc = "caught"]
    /\ UNCHANGED <<ckpt, files, written, listing, call, ckcalls, fetch>>

\* an exception while a file is being written: open(..., "w") has emptied
\* it and json.dump has not finished
AbortInWrite ==
    /\ \/ /\ run.pc = "thread"
          /\ files' = [files EXCEPT !.threads[run.i + 1] = "partial"]
          /\ UNCHANGED ckpt
       \/ /\ run.pc = "comments"
          /\ files' = [files EXCEPT !.comments[run.i + 1] = "partial"]
          /\ UNCHANGED ckpt
       \/ /\ run.pc = "checkpoint"
          /\ ckpt.state # "corrupt"
          /\ ckpt' = CorruptFile
          /\ UNCHANGED files
    /\ run' = [run EXCEPT !.pc = "caught"]
    /\ UNCHANGED <<written, listing, call, ckcalls, fetch>>

\* the run is over; the next one may start
EndRun ==
    /\ run.pc \in { "returned", "caught", "raised" }
    /\ run' = Idle
    /\ UNCHANGED <<ckpt, files, written, listing, call, ckcalls, fetch>>

NextRetrieve ==
    \/ StartRun
    \/ GetSubmissions
    \/ SaveThread
    \/ SaveComments
    \/ SaveCheckpoint
    \/ Sleep
    \/ Abort
    \/ AbortInWrite
    \/ EndRun

SpecRetrieve == InitRetrieve /\ [][NextRetrieve]_vars

(***************************************************************************)
(* _save_checkpoint and _load_checkpoint called one after the other on one *)
(* data directory.                                                         *)
(***************************************************************************)
\* the largest index saved
MaxIndex == 2

\* subreddits, and the listings of praw that retrieve_threads may name
Subreddits == { << "ask" >>, << "ask", "random" >> }

Sorts == { << "top" >>, << "rising" >>, << "random", "rising" >> }

TimeFilters == { << "all" >> }

\* the keys (subreddit, sort, time_filter)
Triples == Subreddits \X Sorts \X TimeFilters

InitCheckpoint ==
    /\ pc = "input"
    /\ op = "none"
    /\ doc = JNull
    /\ parent = JNull
    /\ result = Ok(JNull)
    /\ NoRetrieval
    /\ NoCheckpointCalls
    /\ NoFetch

\* one call of _save_checkpoint; saved keeps the last index saved for
\* each key (subreddit, sort, time_filter)
SaveCheckpointCall ==
    /\ \E t \in Triples, index \in 0..MaxIndex :
          LET file == _save_checkpoint(ckpt, index, t[1], t[2], t[3])
          IN  /\ IsOk(file)
              /\ ckpt' = file.ok
              /\ saved' = [u \in DOMAIN saved \cup { t } |->
                             IF u = t THEN index ELSE saved[u]]
    /\ UNCHANGED <<files, written, run, listing, loaded, call, fetch>>

\* one call of _load_checkpoint
LoadCheckpointCall ==
    /\ \E t \in Triples :
          loaded' = [key |-> t, index |-> _load_checkpoint(ckpt, t[1], t[2], t[3])]
    /\ UNCHANGED <<retrieval, saved, call, fetch>>

NextCheckpoint == SaveCheckpointCall \/ LoadCheckpointCall

SpecCheckpoint == InitCheckpoint /\ [][NextCheckpoint]_vars

(***************************************************************************)
(* get_channel_videos and get_video_comments: the loop over the pages of   *)
(* the API.  fetch holds the locals of one call, the pageToken of every    *)
(* request issued (sent) and every response received (got).                *)
(***************************************************************************)
\* maxResults of playlistItems().list, and the step of n_videos
VideoPageSize == 50

\* maxResults of commentThreads().list, and the step of n_comments
CommentPageSize == 100

\* the caps tried reach MaxRequests pages
MaxRequests == 3

PageSizeOf(fn) ==
    IF fn = "get_channel_videos" THEN VideoPageSize ELSE CommentPageSize

\* max_videos, max_comments: around every multiple of the page size
Caps(size) ==
    { c \in (-1)..(MaxRequests * size) : c % size \in { 0, 1, size - 1 } }

ItemLists == { << >>, << "a" >>, << "a", "b" >> }

PageTokens == { JNull, JStr("t1"), JStr("t2") }

\* what execute() returns: a page with or without nextPageToken (null
\* included), or a body without items
Responses ==
    { [items |-> l] : l \in ItemLists }
       \cup { [items |-> l, nextPageToken |-> t] : l \in ItemLists, t \in PageTokens }
       \cup { [nextPageToken |-> JStr("t1")] }

\* videos = []; next_page_token = None; page = 0; n_videos = 0
StartFetch(fn, cap) ==
    [pc |-> "request", fn |-> fn, cap |-> cap, items |-> << >>,
     next_page_token |-> JNull, page |-> 0, n |-> 0,
     sent |-> << >>, got |-> << >>]

\* the break of the loop without the cap
BreakOnTokenOnly(next_page_token, n, cap) == next_page_token = JNull

\* if next_page_token is None or n_videos >= max_videos: break
Break(next_page_token, n, cap) == next_page_token = JNull \/ n >= cap

\* one turn of the while loop: the request with the current token, then
\* the body on its response
Page(f, size, response) ==
    LET sent == Append(f.sent, f.next_page_token)
        got  == Append(f.got, response)
    IN  IF "items" \notin DOMAIN response
        THEN [f EXCEPT !.pc = "raised", !.sent = sent, !.got = got]
        ELSE LET token == Get(response, "nextPageToken", JNull)
                 n     == f.n + size
             IN  [f EXCEPT !.pc = IF Break(token, n, f.cap)
                                  THEN "returned" ELSE "request",
                           !.items = f.items \o response.items,
                           !.next_page_token = token,
                           !.n = n,
                           !.page = f.page + 1,
                           !.sent = sent,
                           !.got = got]

InitFetch ==
    /\ pc = "input"
    /\ op = "none"
    /\ doc = JNull
    /\ parent = JNull
    /\ result = Ok(JNull)
    /\ NoRetrieval
    /\ NoCheckpointCalls
    /\ \E fn \in { "get_channel_videos", "get_video_comments" } :
          \E cap \in Caps(PageSizeOf(fn)) : fetch = StartFetch(fn, cap)

GetChannelVideos ==
    /\ fetch.pc = "request"
    /\ fetch.fn = "get_channel_videos"
    /\ \E response \in Responses : fetch' = Page(fetch, VideoPageSize, response)
    /\ UNCHANGED <<call, retrieval, ckcalls>>

GetVideoComments ==
    /\ fetch.pc = "request"
    /\ fetch.fn = "get_video_comments"
    /\ \E response \in Responses : fetch' = Page(fetch, CommentPageSize, response)
    /\ UNCHANGED <<call, retrieval, ckcalls>>

NextFetch == GetChannelVideos \/ GetVideoComments

SpecFetch == InitFetch /\ [][NextFetch]_vars

\* execute() returns or raises, and the loop body then runs to its end
SpecFetchFair == SpecFetch /\ WF_vars(NextFetch)

(***************************************************************************)
(* RedditParser._parse_comment_tree                                        *)
(***************************************************************************)
\* the single record built from a comment mapping c (lines 77-89)
CommentRecordNullScore(c, parent_id) ==
    [ id               |-> Get(c, "id", JNull),
      body             |-> Get(c, "body", JNull),
      author_name      |-> Get(c, "author", JNull),
      created_utc      |-> Get(c, "created_utc", JNull),
      score            |-> Get(c, "score", JNull),
      is_submitter     |-> Get(c, "is_submitter", JBool(FALSE)),
      parent_id        |-> parent_id,
      link_id          |-> Get(c, "link_id", JNull),
      permalink        |-> Get(c, "permalink", JNull),
      controversiality |-> Get(c, "controversiality", JInt(0)),
      gilded           |-> Get(c, "gilded", JInt(0)) ]

CommentRecord(c, parent_id) ==
    [ id               |-> Get(c, "id", JNull),
      body             |-> Get(c, "body", JNull),
      author_name      |-> Get(c, "author", JNull),
      created_utc      |-> Get(c, "created_utc", JNull),
      score            |-> Get(c, "score", JInt(0)),
      is_submitter     |-> Get(c, "is_submitter", JBool(FALSE)),
      parent_id        |-> parent_id,
      link_id          |-> Get(c, "link_id", JNull),
      permalink        |-> Get(c, "permalink", JNull),
      controversiality |-> Get(c, "controversiality", JInt(0)),
      gilded           |-> Get(c, "gilded", JInt(0)) ]

\* line 92: replies = comment.get("replies", [])
RepliesFirstOnly(c) ==
    LET r == Get(c, "replies", JList(<< >>))
    IN  JList(SubSeq(r.list, 1, IF Len(r.list) > 0 THEN 1 ELSE 0))

RepliesOf(c) == Get(c, "replies", JList(<< >>))

\* line 95: the parent_id handed to the calls for the replies
ChildParentIdRaw(c) == Get(c, "parent_id", JNull)

ChildParentIdOrEmpty(c) == Get(c, "id", JStr(""))

ChildParentId(c) == Get(c, "id", JNull)

\* line 94: comment_data.extend(sub)
ExtendPrepend(comment_data, sub) == sub \o comment_data

Extend(comment_data, sub) == comment_data \o sub

RECURSIVE _parse_comment_tree(_, _)
RECURSIVE ExtendReplies(_, _, _, _)

\* the loop of lines 93-96 over replies[i..]; an exception in a call ends it
ExtendReplies(comment_data, replies, i, pid) ==
    IF i > Len(replies) THEN Ok(comment_data)
    ELSE LET sub == _parse_comment_tree(replies[i], pid)
         IN  IF IsRaise(sub) THEN sub
             ELSE ExtendReplies(Extend(comment_data, sub.ok), replies, i + 1, pid)

\* comment.get on anything but a mapping raises AttributeError
_parse_comment_tree(comment, parent_id) ==
    IF comment.tag # "map" THEN Raise("AttributeError")
    ELSE LET c == comment.map
             comment_data == << CommentRecord(c, parent_id) >>
         IN  ExtendReplies(comment_data, RepliesOf(c).list, 1, ChildParentId(c))

RECURSIVE FlattenForest(_, _)

\* every root of a forest flattened with parent_id null, in forest order
FlattenForest(roots, i) ==
    IF i > Len(roots) THEN Ok(<< >>)
    ELSE LET head == _parse_comment_tree(roots[i], JNull)
             rest == FlattenForest(roots, i + 1)
         IN  IF IsRaise(head) THEN head
             ELSE IF IsRaise(rest) THEN rest
             ELSE Ok(head.ok \o rest.ok)

parse_comment_forest(comment_json) ==
    IF comment_json.tag = "list" THEN FlattenForest(comment_json.list, 1)
    ELSE _parse_comment_tree(comment_json, JNull)

\* RedditParser.parse_comment
parse_comment(comment_json) == _parse_comment_tree(comment_json, JNull)

(***************************************************************************)
(* Comment documents, as _process_comment of get_reddit_data.py writes     *)
(* them (a mapping per comment, its replies nested), and sparser ones.     *)
(***************************************************************************)
\* the largest number of comments in one tree
MaxNodes == 4

\* the keys of a comment that _parse_comment_tree reads, replies apart
CommentKeys ==
    { "id", "body", "author", "created_utc", "score", "is_submitter",
      "link_id", "permalink", "controversiality", "gilded" }

FullComment ==
    [ id               |-> JStr("c3"),
      body             |-> JStr("third"),
      author           |-> JStr("alice"),
      created_utc      |-> JInt(1700),
      score            |-> JInt(7),
      is_submitter     |-> JBool(TRUE),
      parent_id        |-> JStr("t3_raw"),
      link_id          |-> JStr("t3_x"),
      permalink        |-> JStr("/r/x/c3"),
      controversiality |-> JInt(1),
      gilded           |-> JInt(2) ]

Restrict(m, K) == [k \in K \cap DOMAIN m |-> m[k]]

WithReplies(m, forest) ==
    [k \in DOMAIN m \cup {"replies"} |->
        IF k = "replies" THEN JList(forest) ELSE m[k]]

\* comments without a replies key, and comments with one
BareShapes ==
    { EmptyMap, [id |-> JStr("c1")] }

ListedShapes ==
    { [id |-> JStr("c2"), parent_id |-> JStr("t1_raw"), score |-> JInt(5)] }

RECURSIVE TreesOfSize(_)
RECURSIVE ForestsOfSize(_)

\* the sequences of trees holding k comments in all
ForestsOfSize(k) ==
    IF k = 0 THEN { << >> }
    ELSE UNION { { << t >> \o f : t \in TreesOfSize(j), f \in ForestsOfSize(k - j) }
                 : j \in 1..k }

\* the trees of exactly n comments
TreesOfSize(n) ==
    IF n = 1
    THEN { JMap(m) : m \in BareShapes } \cup
         { JMap(WithReplies(m, << >>)) : m \in ListedShapes }
    ELSE { JMap(WithReplies(m, f)) :
             m \in BareShapes \cup ListedShapes, f \in ForestsOfSize(n - 1) }

Trees == UNION { TreesOfSize(n) : n \in 1..MaxNodes }

\* one comment with any subset of its keys absent, alone or as a reply
SparseComments ==
    LET nodes == { Restrict(FullComment, K) : K \in SUBSET CommentKeys }
    IN  { JMap(m) : m \in nodes } \cup
        { JMap(WithReplies(m, << >>)) : m \in nodes } \cup
        { JMap(WithReplies([id |-> JStr("c1")], << JMap(m) >>)) : m \in nodes }

\* what _extract_comments saves for a submission: a list of root comments
Forests == { JList(f) : f \in UNION { ForestsOfSize(k) : k \in 0..(MaxNodes - 1) } }

CommentDocs == Trees \cup SparseComments \cup Forests

ParentIds == { JNull, JStr("c0") }

(***************************************************************************)
(* The parser applied to one comment document.                             *)
(***************************************************************************)
InitComment ==
    /\ pc = "input"
    /\ op = "none"
    /\ doc \in CommentDocs
    /\ parent = JNull
    /\ result = Ok(JNull)
    /\ NoRetrieval
    /\ NoCheckpointCalls
    /\ NoFetch

ParseComment ==
    /\ pc = "input"
    /\ pc' = "done"
    /\ op' = "parse_comment"
    /\ result' = parse_comment(doc)
    /\ UNCHANGED <<doc, parent, retrieval, ckcalls, fetch>>

ParseCommentTree ==
    /\ pc = "input"
    /\ \E pid \in ParentIds :
          /\ parent' = pid
          /\ result' = _parse_comment_tree(doc, pid)
    /\ pc' = "done"
    /\ op' = "_parse_comment_tree"
    /\ UNCHANGED <<doc, retrieval, ckcalls, fetch>>

NextComment == ParseComment \/ ParseCommentTree

SpecComment == InitComment /\ [][NextComment]_vars

(***************************************************************************)
(* Texts.  A text is a string; what a regular expression or the literal    *)
(* decoder makes of it is tabulated for the texts the documents draw on.   *)
(***************************************************************************)
TextPlain == "no links here"

TextLinks == "See https://example.com/a and http://foo.bar/b?x=1."

\* url_pattern.findall(text), lines 10-13: the matches, in order
UrlMatches(text) ==
    CASE text = "" -> << >>
      [] text = TextPlain -> << >>
      [] text = TextLinks ->
            << JStr("https://example.com/a"), JStr("http://foo.bar/b?x=1") >>

HtmlEmbed ==
    "<iframe src=\"https://www.youtube.com/embed/abc123?feature=oembed\"></iframe>"

HtmlOther == "<iframe src=\"https://example.com/v\"></iframe>"

\* the match used unchecked: .group(1) of no match
_extract_video_id_unchecked(html) ==
    IF html.tag # "str" THEN Raise("TypeError")
    ELSE CASE html.str = HtmlEmbed -> Ok(JStr("abc123"))
           [] html.str = HtmlOther -> Raise("AttributeError")

\* RedditParser._extract_video_id: group 1 of youtube\.com/embed/([^/?]+)
_extract_video_id(html) ==
    IF html.tag # "str" THEN Raise("TypeError")
    ELSE CASE html.str = HtmlEmbed -> Ok(JStr("abc123"))
           [] html.str = HtmlOther -> Ok(JStr("None"))

\* the media descriptors: str() of the submission's media, as
\* _serialize_praw_object writes it, and damaged ones
MediaNone == "None"

MediaYoutube ==
    "{'type': 'youtube.com', 'oembed': {'author_name': 'Chan', 'author_url': 'https://www.youtube.com/@chan', 'title': 'Vid', 'html': '<iframe src=\"https://www.youtube.com/embed/abc123?feature=oembed\"></iframe>'}}"

MediaYoutubeBare ==
    "{'type': 'youtube.com', 'oembed': {'html': '<iframe src=\"https://www.youtube.com/embed/abc123?feature=oembed\"></iframe>'}}"

MediaYoutubeNoEmbed ==
    "{'type': 'youtube.com', 'oembed': {'title': 'Vid', 'html': '<iframe src=\"https://example.com/v\"></iframe>'}}"

MediaYoutubeNoEmbedFull ==
    "{'type': 'youtube.com', 'oembed': {'author_name': 'Chan', 'author_url': 'https://www.youtube.com/@chan', 'title': 'Vid', 'html': '<iframe src=\"https://example.com/v\"></iframe>'}}"

MediaYoutubeNoOembed == "{'type': 'youtube.com'}"

MediaYoutubeNoHtml == "{'type': 'youtube.com', 'oembed': {'author_name': 'Chan'}}"

MediaYoutubeNullOembed == "{'type': 'youtube.com', 'oembed': None}"

MediaVimeo == "{'type': 'vimeo.com', 'oembed': {}}"

MediaNoType == "{'oembed': {}}"

MediaUnclosed == "{'type':"

MediaBareName == "youtube"

MediaInt == "5"

MediaStr == "'abc'"

MediaStrType == "'my type'"

MediaList == "['x']"

MediaListType == "['type']"

MediaTexts ==
    { MediaNone, MediaYoutube, MediaYoutubeBare, MediaYoutubeNoEmbed,
      MediaYoutubeNoEmbedFull,
      MediaYoutubeNoOembed, MediaYoutubeNoHtml, MediaYoutubeNullOembed,
      MediaVimeo, MediaNoType, MediaUnclosed, MediaBareName, MediaInt,
      MediaStr, MediaStrType, MediaList, MediaListType }

OembedFull ==
    [ author_name |-> JStr("Chan"),
      author_url  |-> JStr("https://www.youtube.com/@chan"),
      title       |-> JStr("Vid"),
      html        |-> JStr(HtmlEmbed) ]

\* ast.literal_eval: the value a text denotes, or SyntaxError for a text
\* that does not parse, ValueError for one that is no literal and for
\* anything that is not a text
literal_eval(v) ==
    IF v.tag # "str" THEN Raise("ValueError")
    ELSE CASE v.str = MediaNone -> Ok(JNull)
           [] v.str = MediaYoutube ->
                 Ok(JMap([type |-> JStr("youtube.com"), oembed |-> JMap(OembedFull)]))
           [] v.str = MediaYoutubeBare ->
                 Ok(JMap([type |-> JStr("youtube.com"),
                          oembed |-> JMap([html |-> JStr(HtmlEmbed)])]))
           [] v.str = MediaYoutubeNoEmbed ->
                 Ok(JMap([type |-> JStr("youtube.com"),
                          oembed |-> JMap([title |-> JStr("Vid"),
                                           html |-> JStr(HtmlOther)])]))
           [] v.str = MediaYoutubeNoEmbedFull ->
                 Ok(JMap([type |-> JStr("youtube.com"),
                          oembed |-> JMap([OembedFull EXCEPT !.html = JStr(HtmlOther)])]))
           [] v.str = MediaYoutubeNoOembed -> Ok(JMap([type |-> JStr("youtube.com")]))
           [] v.str = MediaYoutubeNoHtml ->
                 Ok(JMap([type |-> JStr("youtube.com"),
                          oembed |-> JMap([author_name |-> JStr("Chan")])]))
           [] v.str = MediaYoutubeNullOembed ->
                 Ok(JMap([type |-> JStr("youtube.com"), oembed |-> JNull]))
           [] v.str = MediaVimeo ->
                 Ok(JMap([type |-> JStr("vimeo.com"), oembed |-> JMap(EmptyMap)]))
           [] v.str = MediaNoType -> Ok(JMap([oembed |-> JMap(EmptyMap)]))
           [] v.str = MediaUnclosed -> Raise("SyntaxError")
           [] v.str = MediaBareName -> Raise("ValueError")
           [] v.str = MediaInt -> Ok(JInt(5))
           [] v.str = MediaStr -> Ok(JStr("abc"))
           [] v.str = MediaStrType -> Ok(JStr("my type"))
           [] v.str = MediaList -> Ok(JList(<< JStr("x") >>))
           [] v.str = MediaListType -> Ok(JList(<< JStr("type") >>))

\* "type" in v: a key of a mapping, an element of a list, a part of a
\* string; TypeError for a value that holds nothing
HasType(v) ==
    CASE v.tag = "map" -> Ok("type" \in DOMAIN v.map)
      [] v.tag = "list" -> Ok(\E i \in 1..Len(v.list) : v.list[i] = JStr("type"))
      [] v.tag = "str" -> Ok(v.str = "my type")
      [] OTHER -> Raise("TypeError")

\* v["type"]: only a mapping is indexed by a string
TypeOf(v) == IF v.tag = "map" THEN Ok(v.map["type"]) ELSE Raise("TypeError")

\* lines 111-122: the four fields, read off media_dict["oembed"]
YoutubeData(media_dict) ==
    IF "oembed" \notin DOMAIN media_dict THEN Raise("KeyError")
    ELSE LET oembed == media_dict["oembed"]
         IN  IF oembed.tag # "map" THEN Raise("AttributeError")
             ELSE IF "html" \notin DOMAIN oembed.map THEN Raise("KeyError")
             ELSE LET video_id == _extract_video_id(oembed.map["html"])
                  IN  IF IsRaise(video_id) THEN video_id
                      ELSE Ok(JMap(
                             [ media_author_name |->
                                  Get(oembed.map, "author_name", JStr("None")),
                               media_author_url |->
                                  Get(oembed.map, "author_url", JStr("None")),
                               video_title |-> Get(oembed.map, "title", JStr("None")),
                               video_id |-> video_id.ok ]))

\* RedditParser.extract_youtube_media: only ValueError is caught
extract_youtube_media(parsed_thread) ==
    LET media_str == Get(parsed_thread.map, "media", JNull)
    IN  IF media_str = JStr("None") THEN Ok(JStr("None"))
        ELSE LET media_dict == literal_eval(media_str)
             IN  IF IsRaise(media_dict)
                 THEN IF media_dict.raise = "ValueError" THEN Ok(JStr("None"))
                      ELSE media_dict
                 ELSE LET has == HasType(media_dict.ok)
                      IN  IF IsRaise(has) THEN has
                          ELSE IF ~has.ok THEN Ok(JStr("None"))
                          ELSE LET type == TypeOf(media_dict.ok)
                               IN  IF IsRaise(type) THEN type
                                   ELSE IF type.ok = JStr("youtube.com")
                                   THEN YoutubeData(media_dict.ok.map)
                                   ELSE Ok(JStr("None"))

\* RedditParser.extract_urls_from_selftext: findall takes a text only
extract_urls_from_selftext(parsed_data) ==
    LET selftext == Get(parsed_data.map, "selftext", JNull)
    IN  IF selftext.tag # "str" THEN Raise("TypeError")
        ELSE Ok(JList(UrlMatches(selftext.str)))

\* line 23: thread_json.get("subreddit", {}).get("id", None)
SubredditId(t) ==
    LET subreddit == Get(t, "subreddit", JMap(EmptyMap))
    IN  IF subreddit.tag # "map" THEN Raise("AttributeError")
        ELSE Ok(Get(subreddit.map, "id", JNull))

\* lines 25-29: the author's name, unless the author is the text "None"
AuthorName(t) ==
    IF Get(t, "author", JNull) # JStr("None")
    THEN LET author == Get(t, "author", JMap(EmptyMap))
         IN  IF author.tag # "map" THEN Raise("AttributeError")
             ELSE Ok(Get(author.map, "name", JNull))
    ELSE Ok(JNull)

\* RedditParser.parse_thread
parse_thread(thread_json) ==
    LET t == thread_json.map
        subreddit_id == SubredditId(t)
        author_name == AuthorName(t)
        urls == extract_urls_from_selftext(thread_json)
    IN  IF IsRaise(subreddit_id) THEN subreddit_id
        ELSE IF IsRaise(author_name) THEN author_name
        ELSE IF IsRaise(urls) THEN urls
        ELSE LET thread_dict ==
                    [ thread_name    |-> Get(t, "name", JNull),
                      subreddit_name |-> Get(t, "subreddit_name_prefixed", JNull),
                      subreddit_id   |-> subreddit_id.ok,
                      title          |-> Get(t, "title", JNull),
                      author_name    |-> author_name.ok,
                      num_comments   |-> Get(t, "num_comments", JInt(0)),
                      ups            |-> Get(t, "ups", JInt(0)),
                      downs          |-> Get(t, "downs", JInt(0)),
                      upvote_ratio   |-> Get(t, "upvote_ratio", JFloat(0)),
                      score          |-> Get(t, "score", JInt(0)),
                      selftext       |-> Get(t, "selftext", JNull),
                      media          |-> Get(t, "media", JNull),
                      media_only     |-> Get(t, "media_only", JBool(FALSE)),
                      created_utc    |-> Get(t, "created_utc", JInt(0)),
                      urls           |-> urls.ok ]
                 yt_data == extract_youtube_media(JMap(thread_dict))
             IN  IF IsRaise(yt_data) THEN yt_data
                 ELSE IF yt_data.ok # JStr("None")
                 THEN Ok(JMap(Update(thread_dict, yt_data.ok.map)))
                 ELSE Ok(JMap(thread_dict))

(***************************************************************************)
(* Submission documents.                                                   *)
(***************************************************************************)
ThreadKeys ==
    { "name", "subreddit_name_prefixed", "subreddit", "title", "author",
      "num_comments", "ups", "downs", "upvote_ratio", "score", "selftext",
      "media", "media_only", "created_utc" }

\* the document _serialize_submission writes: every leaf is str(obj), so
\* counts, ratio and flags are texts
FullThread ==
    [ name                    |-> JStr("t3_abc"),
      subreddit_name_prefixed |-> JStr("r/x"),
      subreddit               |-> JMap([id |-> JStr("t5_x")]),
      title                   |-> JStr("A title"),
      author                  |-> JMap([name |-> JStr("bob")]),
      num_comments            |-> JStr("3"),
      ups                     |-> JStr("10"),
      downs                   |-> JStr("1"),
      upvote_ratio            |-> JStr("0.91"),
      score                   |-> JStr("9"),
      selftext                |-> JStr(TextLinks),
      media                   |-> JStr(MediaYoutube),
      media_only              |-> JStr("True"),
      created_utc             |-> JStr("1700") ]

\* the forms of a raw author: the serialized account, an account without a
\* name, the text "None" of a deleted one, a plain name, null
Authors ==
    { JMap([name |-> JStr("bob")]), JMap(EmptyMap), JStr("None"), JStr("bob"),
      JNull }

SelfTexts == { JNull, JStr(""), JStr(TextPlain), JStr(TextLinks) }

\* the raw media: a descriptor text, null, or the mapping itself
Medias ==
    { JStr(m) : m \in MediaTexts } \cup
    { JNull, JMap([type |-> JStr("youtube.com")]) }

\* the full document with any subset of its keys absent
PartialThreads == { JMap(Restrict(FullThread, K)) : K \in SUBSET ThreadKeys }

\* the full document with its author, self-text and media varied
VariedThreads ==
    { JMap([FullThread EXCEPT !.author = a, !.selftext = s, !.media = m]) :
        a \in Authors, s \in SelfTexts, m \in Medias }

ThreadDocs == PartialThreads \cup VariedThreads

(***************************************************************************)
(* The parser applied to one submission document.                          *)
(***************************************************************************)
InitThread ==
    /\ pc = "input"
    /\ op = "none"
    /\ doc \in ThreadDocs
    /\ parent = JNull
    /\ result = Ok(JNull)
    /\ NoRetrieval
    /\ NoCheckpointCalls
    /\ NoFetch

ParseThread ==
    /\ pc = "input"
    /\ pc' = "done"
    /\ op' = "parse_thread"
    /\ result' = parse_thread(doc)
    /\ UNCHANGED <<doc, parent, retrieval, ckcalls, fetch>>

ExtractUrls ==
    /\ pc = "input"
    /\ pc' = "done"
    /\ op' = "extract_urls_from_selftext"
    /\ result' = extract_urls_from_selftext(doc)
    /\ UNCHANGED <<doc, parent, retrieval, ckcalls, fetch>>

ExtractYoutubeMedia ==
    /\ pc = "input"
    /\ pc' = "done"
    /\ op' = "extract_youtube_media"
    /\ result' = extract_youtube_media(doc)
    /\ UNCHANGED <<doc, parent, retrieval, ckcalls, fetch>>

NextThread == ParseThread \/ ExtractUrls \/ ExtractYoutubeMedia

SpecThread == InitThread /\ [][NextThread]_vars

(***************************************************************************)
(* The source tree of a comment document, by paths: the path of a comment  *)
(* is the sequence of its indices in the replies lists above it.           *)
(***************************************************************************)
Children(t) ==
    IF "replies" \in DOMAIN t.map THEN t.map["replies"].list ELSE << >>

RECURSIVE Size(_)
RECURSIVE SizeFrom(_, _)

SizeFrom(ts, i) == IF i > Len(ts) THEN 0 ELSE Size(ts[i]) + SizeFrom(ts, i + 1)

Size(t) == 1 + SizeFrom(Children(t), 1)

RECURSIVE Paths(_)

Paths(t) ==
    { << >> } \cup
    UNION { { << i >> \o p : p \in Paths(Children(t)[i]) }
            : i \in 1..Len(Children(t)) }

RECURSIVE NodeAt(_, _)

NodeAt(t, p) == IF p = << >> THEN t ELSE NodeAt(Children(t)[Head(p)], Tail(p))

Front(p) == SubSeq(p, 1, Len(p) - 1)

IsProperPrefix(q, p) ==
    /\ Len(q) < Len(p)
    /\ \A i \in 1..Len(q) : q[i] = p[i]

\* q comes before p in pre-order: an ancestor of p, or in the subtree of an
\* earlier sibling of p or of an ancestor of p
PreBefore(q, p) ==
    \/ IsProperPrefix(q, p)
    \/ \E k \in 1..Len(q) :
          /\ k <= Len(p)
          /\ \A i \in 1..(k - 1) : q[i] = p[i]
          /\ q[k] < p[k]

\* the place of each comment of t in the pre-order of t, by path
PosMap(t) ==
    LET ps == Paths(t)
    IN  [p \in ps |-> 1 + Cardinality({ q \in ps : PreBefore(q, p) })]

\* the number of comments in the subtree at each path of t
SizeMap(t) == [p \in Paths(t) |-> Size(NodeAt(t, p))]

OutKey(k) == IF k = "author" THEN "author_name" ELSE k

\* rec carries the fields of source comment n
RecordIsOf(rec, n) ==
    \A k \in CommentKeys :
       k \in DOMAIN n.map => rec[OutKey(k)] = n.map[k]

IdOf(n) == IF "id" \in DOMAIN n.map THEN n.map["id"] ELSE JNull

\* a call on one comment tree has returned or raised
Flattened == pc = "done" /\ doc.tag = "map"

\* the call returned one record for each path of the source tree
OnePerNode ==
    /\ IsOk(result)
    /\ Len(result.ok) = Cardinality(Paths(doc))

\* C1: flattening a comment tree of N comments returns exactly N records
C1_OneRecordPerNode ==
    Flattened => IsOk(result) /\ Len(result.ok) = Size(doc)

C1_Witness ==
    /\ Flattened
    /\ IsOk(result)
    /\ Len(result.ok) = 4
    /\ \E p \in Paths(doc) : Len(p) = 2
    /\ Len(Children(doc)) = 2

\* C2: the record of every reply carries the id of the record of its direct
\* source parent as parent_id, whatever parent_id the raw reply holds
C2_ParentLinkage ==
    Flattened =>
       /\ OnePerNode
       /\ LET pos == PosMap(doc)
          IN  \A p \in DOMAIN pos \ { << >> } :
                 /\ result.ok[pos[p]].parent_id = result.ok[pos[Front(p)]].id
                 /\ result.ok[pos[p]].parent_id = IdOf(NodeAt(doc, Front(p)))

C2_Witness ==
    /\ Flattened
    /\ OnePerNode
    /\ \E p \in Paths(doc) :
          /\ Len(p) = 2
          /\ "parent_id" \in DOMAIN NodeAt(doc, p).map
          /\ result.ok[PosMap(doc)[p]].parent_id # NodeAt(doc, p).map["parent_id"]
          /\ result.ok[PosMap(doc)[p]].parent_id = JStr("c1")

\* C3: the records are in depth-first pre-order: a comment's record comes
\* before those of its descendants, the records of a subtree are contiguous
\* and the subtrees of siblings keep the order of the replies list
C3_PreOrder ==
    Flattened =>
       /\ OnePerNode
       /\ LET pos == PosMap(doc)
              size == SizeMap(doc)
          IN  \A p \in DOMAIN pos :
                 /\ RecordIsOf(result.ok[pos[p]], NodeAt(doc, p))
                 /\ result.ok[pos[p]].id = IdOf(NodeAt(doc, p))
                 /\ \A q \in DOMAIN pos :
                       /\ IsProperPrefix(p, q) =>
                             /\ pos[p] < pos[q]
                             /\ pos[q] < pos[p] + size[p]
                       /\ ( /\ p # << >>
                            /\ Len(q) = Len(p)
                            /\ Front(q) = Front(p)
                            /\ p[Len(p)] < q[Len(q)] )
                          => pos[p] + size[p] <= pos[q]

C3_Witness ==
    /\ Flattened
    /\ OnePerNode
    /\ << 1, 1 >> \in Paths(doc)
    /\ << 2 >> \in Paths(doc)
    /\ IdOf(doc) = JStr("c1")
    /\ result.ok[2].id = JStr("c2")
    /\ result.ok[3].id = JNull
    /\ result.ok[4].id = JStr("c1")
    /\ IdOf(NodeAt(doc, << 1, 1 >>)) = JNull

\* C9 as stated: parse_comment takes a list of root comments and returns the
\* concatenation, in forest order, of each root flattened with parent_id null
C9_AcceptsForest ==
    (pc = "done" /\ op = "parse_comment" /\ doc.tag = "list") =>
       /\ IsOk(result)
       /\ result = FlattenForest(doc.list, 1)

\* C9 amended: parse_comment takes one root comment, a mapping, and returns
\* its records with the root's parent_id null; a list of roots raises
\* AttributeError, so the per-root concatenation is the caller's
C9_SingleRoot ==
    (pc = "done" /\ op = "parse_comment") =>
       /\ doc.tag = "map" =>
             /\ IsOk(result)
             /\ Len(result.ok) = Size(doc)
             /\ result.ok[1].parent_id = JNull
             /\ result.ok[1].id = IdOf(doc)
       /\ doc.tag = "list" => result = Raise("AttributeError")

C9_Witness ==
    /\ pc = "done"
    /\ op = "parse_comment"
    /\ doc.tag = "list"
    /\ Len(doc.list) = 2
    /\ Len(Children(doc.list[1])) = 1
    /\ result = Raise("AttributeError")

\* C10: an absent score, controversiality, gilded or is_submitter is 0, 0, 0
\* or False in the record, an absent id, body, author, created_utc, link_id
\* or permalink is null, at any depth; a comment with absent or empty
\* replies yields its one record and no error
C10_Defaults ==
    Flattened =>
       /\ OnePerNode
       /\ LET pos == PosMap(doc)
          IN  \A p \in DOMAIN pos :
                 LET rec == result.ok[pos[p]]
                     n == NodeAt(doc, p).map
                 IN  /\ \A k \in { "score", "controversiality", "gilded" } :
                           k \notin DOMAIN n => rec[k] = JInt(0)
                     /\ "is_submitter" \notin DOMAIN n =>
                           rec.is_submitter = JBool(FALSE)
                     /\ \A k \in { "id", "body", "author", "created_utc",
                                   "link_id", "permalink" } :
                           k \notin DOMAIN n => rec[OutKey(k)] = JNull
       /\ Len(Children(doc)) = 0 => Len(result.ok) = 1

C10_Witness ==
    /\ Flattened
    /\ OnePerNode
    /\ << 1 >> \in Paths(doc)
    /\ DOMAIN NodeAt(doc, << 1 >>).map = { "body", "gilded" }
    /\ result.ok[2].score = JInt(0)
    /\ result.ok[2].is_submitter = JBool(FALSE)
    /\ result.ok[2].id = JNull
    /\ result.ok[2].gilded = JInt(2)

\* C11 as stated: in the output of parse_comment only the root's record has
\* a null parent_id, also in trees where a comment has no id
C11_ReplyParentNeverNull ==
    (Flattened /\ op = "parse_comment") =>
       /\ OnePerNode
       /\ LET pos == PosMap(doc)
          IN  \A p \in DOMAIN pos \ { << >> } : result.ok[pos[p]].parent_id # JNull

\* C11 amended: in the output of parse_comment the root's record has a null
\* parent_id, and the record of a reply has a null parent_id exactly when
\* its direct source parent has no id
C11_NullParentIffParentHasNoId ==
    (Flattened /\ op = "parse_comment") =>
       /\ OnePerNode
       /\ result.ok[1].parent_id = JNull
       /\ LET pos == PosMap(doc)
          IN  \A p \in DOMAIN pos \ { << >> } :
                 (result.ok[pos[p]].parent_id = JNull)
                    <=> (IdOf(NodeAt(doc, Front(p))) = JNull)

C11_Witness ==
    /\ Flattened
    /\ op = "parse_comment"
    /\ OnePerNode
    /\ << 1, 1 >> \in Paths(doc)
    /\ "id" \in DOMAIN doc.map
    /\ "id" \notin DOMAIN NodeAt(doc, << 1 >>).map
    /\ result.ok[2].parent_id # JNull
    /\ result.ok[3].parent_id = JNull

(***************************************************************************)
(* The thread parser's claims.                                             *)
(***************************************************************************)
MediaFields == { "media_author_name", "media_author_url", "video_title", "video_id" }

\* the document is the full one but for the keys in K, varied or absent
FullBut(K) ==
    /\ DOMAIN doc.map \cup K = ThreadKeys
    /\ \A k \in DOMAIN doc.map \ K : doc.map[k] = FullThread[k]

\* C4: parse_thread returns a record for a document with any subset of its
\* keys absent, each absent field holding its default
C4_NeverRaises ==
    (pc = "done" /\ op = "parse_thread" /\ FullBut(ThreadKeys \ DOMAIN doc.map)) =>
       /\ IsOk(result)
       /\ \A k \in { "num_comments", "ups", "downs", "score", "created_utc" } :
             k \notin DOMAIN doc.map => result.ok.map[k] = JInt(0)
       /\ "media_only" \notin DOMAIN doc.map => result.ok.map["media_only"] = JBool(FALSE)
       /\ "name" \notin DOMAIN doc.map => result.ok.map["thread_name"] = JNull
       /\ "subreddit_name_prefixed" \notin DOMAIN doc.map =>
             result.ok.map["subreddit_name"] = JNull
       /\ "subreddit" \notin DOMAIN doc.map => result.ok.map["subreddit_id"] = JNull
       /\ "author" \notin DOMAIN doc.map => result.ok.map["author_name"] = JNull
       /\ \A k \in { "title", "selftext", "media" } :
             k \notin DOMAIN doc.map => result.ok.map[k] = JNull

\* C5: extract_urls_from_selftext returns the empty list for a null or
\* absent selftext
C5_EmptyOnNull ==
    ( /\ pc = "done"
      /\ op = "extract_urls_from_selftext"
      /\ Get(doc.map, "selftext", JNull) = JNull )
    => result = Ok(JList(<< >>))

\* a media field that is no decodable descriptor of a recognized video: the
\* text "None", null or absent, a text that does not decode, a decoded value
\* that is no mapping, a mapping whose type is missing or not youtube.com
NotRecognizedVideo(media) ==
    \/ media = JStr("None")
    \/ media = JNull
    \/ /\ media.tag = "str"
       /\ LET decoded == literal_eval(media)
          IN  \/ IsRaise(decoded)
              \/ /\ IsOk(decoded)
                 /\ \/ decoded.ok.tag # "map"
                    \/ /\ decoded.ok.tag = "map"
                       /\ \/ "type" \notin DOMAIN decoded.ok.map
                          \/ /\ "type" \in DOMAIN decoded.ok.map
                             /\ decoded.ok.map["type"] # JStr("youtube.com")

\* C6: extract_youtube_media returns "None", and raises nothing, for every
\* media field that is no decodable descriptor of a recognized video
C6_AbsentNeverRaises ==
    ( /\ pc = "done"
      /\ op = "extract_youtube_media"
      /\ NotRecognizedVideo(Get(doc.map, "media", JNull)) )
    => result = Ok(JStr("None"))

\* a descriptor of type youtube.com without oembed, or whose oembed has no html
MissingSubField(media) ==
    /\ media.tag = "str"
    /\ LET decoded == literal_eval(media)
       IN  /\ IsOk(decoded)
           /\ decoded.ok.tag = "map"
           /\ "type" \in DOMAIN decoded.ok.map
           /\ decoded.ok.map["type"] = JStr("youtube.com")
           /\ \/ "oembed" \notin DOMAIN decoded.ok.map
              \/ /\ "oembed" \in DOMAIN decoded.ok.map
                 /\ decoded.ok.map["oembed"].tag = "map"
                 /\ "html" \notin DOMAIN decoded.ok.map["oembed"].map

\* C7: a record of parse_thread holds the four media fields or none of them,
\* and a youtube.com descriptor missing a required sub-field gives a record
\* with none, not an exception
C7_MediaGroup ==
    (pc = "done" /\ op = "parse_thread") =>
       /\ IsOk(result) =>
             MediaFields \cap DOMAIN result.ok.map \in { {}, MediaFields }
       /\ ( /\ FullBut({ "media" })
            /\ "media" \in DOMAIN doc.map
            /\ MissingSubField(doc.map["media"]) )
          => /\ IsOk(result)
             /\ MediaFields \cap DOMAIN result.ok.map = {}

\* the author_name the claim gives each form of the raw author
DisplayName(t) ==
    IF "author" \notin DOMAIN t THEN JNull
    ELSE CASE t["author"] = JStr("None") -> JNull
           [] t["author"].tag = "map" -> Get(t["author"].map, "name", JNull)
           [] t["author"].tag = "str" /\ t["author"] # JStr("None") -> t["author"]
           [] OTHER -> JNull

\* C8: author_name is null for the text "None" and for an absent author, and
\* the display name for a mapping, a plain name and null alike, never raising
C8_AuthorName ==
    (pc = "done" /\ op = "parse_thread" /\ FullBut({ "author" })) =>
       /\ IsOk(result)
       /\ result.ok.map["author_name"] = DisplayName(doc.map)

\* the fragments that hold no youtube.com/embed/<id>
HtmlWithoutEmbed == { HtmlOther }

\* a descriptor of type youtube.com whose oembed html holds no embed path
NoEmbedPath(media) ==
    /\ media.tag = "str"
    /\ media # JStr("None")
    /\ LET decoded == literal_eval(media)
       IN  /\ IsOk(decoded)
           /\ decoded.ok.tag = "map"
           /\ "type" \in DOMAIN decoded.ok.map
           /\ decoded.ok.map["type"] = JStr("youtube.com")
           /\ "oembed" \in DOMAIN decoded.ok.map
           /\ decoded.ok.map["oembed"].tag = "map"
           /\ "html" \in DOMAIN decoded.ok.map["oembed"].map
           /\ decoded.ok.map["oembed"].map["html"].tag = "str"
           /\ decoded.ok.map["oembed"].map["html"].str \in HtmlWithoutEmbed

\* the value of key k of the descriptor's oembed, "None" when it has none
OembedField(media, k) ==
    LET oembed == literal_eval(media).ok.map["oembed"].map
    IN  IF k \in DOMAIN oembed THEN oembed[k] ELSE JStr("None")

\* C12: for a youtube.com descriptor whose html holds no embed path,
\* extract_youtube_media returns the four fields, video_id "None" and the
\* author name, author URL and title as the oembed gives them, "None" each
\* when its key is absent
C12_NoEmbedPath ==
    ( /\ pc = "done"
      /\ op = "extract_youtube_media"
      /\ "media" \in DOMAIN doc.map
      /\ NoEmbedPath(doc.map["media"]) )
    => /\ IsOk(result)
       /\ result.ok.tag = "map"
       /\ DOMAIN result.ok.map = MediaFields
       /\ result.ok.map["video_id"] = JStr("None")
       /\ result.ok.map["media_author_name"] = OembedField(doc.map["media"], "author_name")
       /\ result.ok.map["media_author_url"] = OembedField(doc.map["media"], "author_url")
       /\ result.ok.map["video_title"] = OembedField(doc.map["media"], "title")

C12_Witness ==
    /\ pc = "done"
    /\ op = "extract_youtube_media"
    /\ "media" \in DOMAIN doc.map
    /\ doc.map["media"] = JStr(MediaYoutubeNoEmbed)
    /\ IsOk(result)
    /\ result.ok.tag = "map"
    /\ result.ok.map["video_id"] = JStr("None")
    /\ result.ok.map["video_title"] = JStr("Vid")
    /\ result.ok.map["media_author_name"] = JStr("None")

(***************************************************************************)
(* The retrieval's claims.                                                 *)
(***************************************************************************)
RunKey == CheckpointKey(RunSubreddit, RunSort, RunTimeFilter)

\* a checkpoint is stored for the key of the runs
Stored == ckpt.state = "valid" /\ RunKey \in DOMAIN ckpt.map

StoredIndex == ckpt.map[RunKey].last_processed_index

\* both files of the submission at list index j have been written
BothWritten(j) == j \in written.threads /\ j \in written.comments

\* C13: with checkpoint k stored, both files of every submission at index
\* 0..k have been written; a run starts at 0 without a checkpoint and at k
\* itself with one, and works on no index before all lower ones are written
C13_CheckpointCoversPrefix ==
    /\ Stored => \A j \in 0..StoredIndex : BothWritten(j)
    /\ run.pc = "submissions" =>
          /\ run.i = run.last
          /\ run.last = IF Stored THEN StoredIndex ELSE 0
    /\ run.pc \in { "thread", "comments", "checkpoint" } =>
          /\ run.i < listing
          /\ run.last <= run.i
          /\ \A j \in 0..(run.i - 1) : BothWritten(j)
    /\ run.pc = "sleep" =>
          /\ run.i < listing
          /\ Stored
          /\ StoredIndex = run.i

C13_Witness ==
    /\ Stored
    /\ StoredIndex = 1
    /\ run.pc = "comments"
    /\ run.last = 1
    /\ run.i = 1
    /\ files.threads[2] = "complete"
    /\ files.comments[2] = "partial"
    /\ BothWritten(0)
    /\ BothWritten(1)

\* C14: after any calls of _save_checkpoint, _load_checkpoint returns for
\* every key (subreddit, sort, time_filter) the index last saved for that
\* key, 0 if none was: a save changes the index of no other key
C14_OtherKeysUntouched ==
    \A t \in Triples :
       _load_checkpoint(ckpt, t[1], t[2], t[3]) =
          Ok(IF t \in DOMAIN saved THEN saved[t] ELSE 0)

\* ceil(a / b) for b > 0
CeilDiv(a, b) == -((-a) \div b)

Max(a, b) == IF a >= b THEN a ELSE b

\* max(1, ceil(cap / page_size))
RequestLimit == Max(1, CeilDiv(fetch.cap, PageSizeOf(fetch.fn)))

RECURSIVE ItemsOf(_)
\* the items of the responses, in the order received
ItemsOf(responses) ==
    IF responses = << >> THEN << >>
    ELSE ItemsOf(SubSeq(responses, 1, Len(responses) - 1))
            \o responses[Len(responses)].items

HasNextPageToken(response) == Get(response, "nextPageToken", JNull) # JNull

C15_Pages ==
    LET size == PageSizeOf(fetch.fn)
        k    == Len(fetch.sent)
    IN  /\ Len(fetch.got) = k
        /\ k <= RequestLimit
        \* the first request carries no token, each later one the token of
        \* the response before it
        /\ \A j \in 1..k :
              fetch.sent[j] = IF j = 1 THEN JNull
                              ELSE Get(fetch.got[j - 1], "nextPageToken", JNull)
        \* no request follows a response without a token or a reached cap
        /\ \A j \in 1..(k - 1) :
              /\ "items" \in DOMAIN fetch.got[j]
              /\ HasNextPageToken(fetch.got[j])
              /\ size * j < fetch.cap
        /\ fetch.pc = "request" =>
              /\ fetch.items = ItemsOf(fetch.got)
              /\ k < RequestLimit
              /\ k >= 1 => /\ HasNextPageToken(fetch.got[k])
                           /\ size * k < fetch.cap
        /\ fetch.pc = "returned" =>
              /\ k >= 1
              /\ fetch.items = ItemsOf(fetch.got)
              /\ ~HasNextPageToken(fetch.got[k]) \/ size * k >= fetch.cap
        /\ fetch.pc = "raised" =>
              /\ k >= 1
              /\ "items" \notin DOMAIN fetch.got[k]

\* C15: each of the two functions issues at least one request, appends the
\* items of every page fetched, ends on the first response without a
\* nextPageToken or once page size times pages fetched reaches the cap, so
\* after at most max(1, ceil(cap / page size)) requests whatever tokens the
\* API returns, and sends with each request after the first the token of
\* the response before it
C15_BoundedPagination == []C15_Pages /\ <>(fetch.pc # "request")

\* the cap, not the API, ended a call of several pages whose last response
\* still carried a token
C15_Witness ==
    /\ fetch.pc = "returned"
    /\ Len(fetch.sent) = MaxRequests
    /\ Len(fetch.items) >= 2
    /\ HasNextPageToken(fetch.got[MaxRequests])
    /\ fetch.sent[MaxRequests] = JStr("t2")

====
